---- MODULE Spec2Model ----
(***************************************************************************)
(* DeviceManager of the OpenWrt test dashboard (src/js/devices.js): the    *)
(* asynchronous load of the device inventory and of the per-device test    *)
(* reports, the statistics, and the search/status filter.                  *)
(*                                                                         *)
(* One action is one run of JavaScript between two suspension points: the  *)
(* event loop runs a handler, and every continuation that hangs on         *)
(* already-settled promises, to completion before the next response or     *)
(* user event is delivered.                                                *)
(***************************************************************************)
EXTENDS Integers, Sequences, FiniteSets, TLC

\* The number of loadDevices()/refresh() calls made in a behaviour.
MaxLoads == 2
\* The largest number of devices in an inventory response.
MaxDevices == 2
\* The largest number of property elements in a report document.
MaxProperties == 2
\* The largest number of testcase elements in a report document.
MaxTestcases == 2

Calls == 1..MaxLoads

----------------------------------------------------------------------------
(* JavaScript strings are sequences of one-character strings.              *)

UpperToLower == ("A" :> "a") @@ ("B" :> "b") @@ ("C" :> "c")

\* String.prototype.toLowerCase
ToLowerCase(s) ==
  [i \in 1..Len(s) |-> IF s[i] \in DOMAIN UpperToLower THEN UpperToLower[s[i]] ELSE s[i]]

\* String.prototype.includes
Includes(s, t) ==
  \E i \in 1..(Len(s) - Len(t) + 1) : SubSeq(s, i, i + Len(t) - 1) = t

(* A JavaScript number is <<n>>, and NaN is <<>>.                          *)
NaN == <<>>
Num(n) == <<n>>
IsNaN(x) == x = NaN

\* The operators + and - of numbers: NaN propagates.
Add(x, y) == IF IsNaN(x) \/ IsNaN(y) THEN NaN ELSE Num(x[1] + y[1])
Sub(x, y) == IF IsNaN(x) \/ IsNaN(y) THEN NaN ELSE Num(x[1] - y[1])
\* x > 0: every comparison with NaN is false.
GtZero(x) == ~IsNaN(x) /\ x[1] > 0

DigitVal ==
  ("0" :> 0) @@ ("1" :> 1) @@ ("2" :> 2) @@ ("3" :> 3) @@ ("4" :> 4) @@
  ("5" :> 5) @@ ("6" :> 6) @@ ("7" :> 7) @@ ("8" :> 8) @@ ("9" :> 9)

IsDigit(c) == c \in DOMAIN DigitVal

RECURSIVE SkipSpaces(_)
SkipSpaces(s) == IF s # <<>> /\ Head(s) = " " THEN SkipSpaces(Tail(s)) ELSE s

\* The value of the longest prefix of digits of s, continuing from acc.
RECURSIVE DigitsValue(_, _)
DigitsValue(s, acc) ==
  IF s # <<>> /\ IsDigit(Head(s))
  THEN DigitsValue(Tail(s), 10 * acc + DigitVal[Head(s)])
  ELSE acc

\* parseInt(s): leading white space, an optional sign, then the longest
\* prefix of decimal digits; NaN when there is no digit.
ParseInt(s) ==
  LET t == SkipSpaces(s)
      neg == t # <<>> /\ Head(t) = "-"
      u == IF t # <<>> /\ Head(t) \in {"-", "+"} THEN Tail(t) ELSE t
  IN IF u = <<>> \/ ~IsDigit(Head(u)) THEN NaN
     ELSE Num(IF neg THEN 0 - DigitsValue(u, 0) ELSE DigitsValue(u, 0))

----------------------------------------------------------------------------
(* parseFloat.  A number with a fraction is Num(<<m, e>>), m / 10^e with   *)
(* no trailing zero in the fraction; texts here carry no exponent.         *)

\* The number of digits s begins with.
RECURSIVE DigitsLen(_)
DigitsLen(s) == IF s # <<>> /\ IsDigit(Head(s)) THEN 1 + DigitsLen(Tail(s)) ELSE 0

\* m / 10^e without the trailing zeros of the fraction.
RECURSIVE Decimal(_, _)
Decimal(m, e) == IF e > 0 /\ m % 10 = 0 THEN Decimal(m \div 10, e - 1) ELSE <<m, e>>

\* parseFloat(s): leading white space, an optional sign, digits, and an
\* optional point and digits; NaN when there is no digit.
ParseFloat(s) ==
  LET t == SkipSpaces(s)
      neg == t # <<>> /\ Head(t) = "-"
      u == IF t # <<>> /\ Head(t) \in {"-", "+"} THEN Tail(t) ELSE t
      n == DigitsLen(u)
      rest == SubSeq(u, n + 1, Len(u))
      frac == IF rest # <<>> /\ Head(rest) = "." THEN Tail(rest) ELSE <<>>
      e == DigitsLen(frac)
      m == DigitsValue(frac, DigitsValue(u, 0))
  IN IF n = 0 /\ e = 0 THEN NaN
     ELSE Num(Decimal(IF neg THEN 0 - m ELSE m, e))

\* String.prototype.trim
RECURSIVE TrimEnd(_)
TrimEnd(s) ==
  IF s # <<>> /\ s[Len(s)] = " " THEN TrimEnd(SubSeq(s, 1, Len(s) - 1)) ELSE s

Trim(s) == TrimEnd(SkipSpaces(s))

----------------------------------------------------------------------------
(* Report documents and parseTestReport.                                   *)
(* A document is a record: suite, the attributes of its first testsuite    *)
(* element (no field suite when it has none); properties, its property     *)
(* elements in document order; testcases, its testcase elements in         *)
(* document order, each [attrs, children], a child being a record          *)
(* [tag, attrs, text].  An element's attributes are a record of the        *)
(* attributes it carries.                                                  *)

\* element.getAttribute(name) || dflt: an absent attribute (null) and an
\* empty one ("") are both falsy.
AttrOr(el, name, dflt) ==
  IF name \in DOMAIN el /\ el[name] # <<>> THEN el[name] ELSE dflt

\* element.getAttribute(name), a string or null: <<s>> for the string s,
\* and <<>> for null.
GetAttribute(el, name) == IF name \in DOMAIN el THEN <<el[name]>> ELSE <<>>

\* The value parseTestReport returns when there is no testsuite, and the
\* value loadDevices stores for a failed report: null.
Null == [null |-> TRUE]

\* The object o with o.field = value.
WithField(o, field, value) ==
  [f \in DOMAIN o \cup {field} |-> IF f = field THEN value ELSE o[f]]

\* querySelectorAll of the document: its elements of one kind.
ElementsOf(xmlDoc, kind) == IF kind \in DOMAIN xmlDoc THEN xmlDoc[kind] ELSE <<>>

\* The string "firmware_version".
FirmwareVersion ==
  <<"f", "i", "r", "m", "w", "a", "r", "e", "_", "v", "e", "r", "s", "i", "o", "n">>

\* The forEach over the property elements, from index i on.
RECURSIVE ReadProperties(_, _, _)
ReadProperties(report, properties, i) ==
  IF i > Len(properties) THEN report
  ELSE ReadProperties(
         IF GetAttribute(properties[i], "name") = <<FirmwareVersion>>
         THEN WithField(report, "firmware_version",
                        GetAttribute(properties[i], "value"))
         ELSE report,
         properties, i + 1)

\* testcase.querySelector(tag): the index of the first child with that
\* tag, 0 when there is none.
QuerySelector(testcase, tag) ==
  LET hits == {i \in 1..Len(testcase.children) : testcase.children[i].tag = tag}
  IN IF hits = {} THEN 0 ELSE CHOOSE i \in hits : \A j \in hits : i <= j

\* tc with the status, the message of the marker and, when the marker has
\* text and withDetails, the trimmed text as details.
Marked(tc, marker, status, withDetails) ==
  LET m == WithField(WithField(tc, "status", status),
                     "message", GetAttribute(marker.attrs, "message"))
  IN IF withDetails /\ marker.text # <<>>
     THEN WithField(m, "details", Trim(marker.text))
     ELSE m

\* ParseTestcase looking for an error before a failure.
ParseTestcaseErrorFirst(testcase) ==
  LET tc == [classname |-> GetAttribute(testcase.attrs, "classname"),
             name |-> GetAttribute(testcase.attrs, "name"),
             time |-> ParseFloat(AttrOr(testcase.attrs, "time", <<"0">>)),
             status |-> "passed"]
      failure == QuerySelector(testcase, "failure")
      error_ == QuerySelector(testcase, "error")
      skipped == QuerySelector(testcase, "skipped")
  IN IF error_ # 0 THEN Marked(tc, testcase.children[error_], "error", TRUE)
     ELSE IF failure # 0 THEN Marked(tc, testcase.children[failure], "failed", TRUE)
     ELSE IF skipped # 0 THEN Marked(tc, testcase.children[skipped], "skipped", FALSE)
     ELSE tc

\* The object pushed for one testcase element.
ParseTestcase(testcase) ==
  LET tc == [classname |-> GetAttribute(testcase.attrs, "classname"),
             name |-> GetAttribute(testcase.attrs, "name"),
             time |-> ParseFloat(AttrOr(testcase.attrs, "time", <<"0">>)),
             status |-> "passed"]
      failure == QuerySelector(testcase, "failure")
      error_ == QuerySelector(testcase, "error")
      skipped == QuerySelector(testcase, "skipped")
  IN IF failure # 0 THEN Marked(tc, testcase.children[failure], "failed", TRUE)
     ELSE IF error_ # 0 THEN Marked(tc, testcase.children[error_], "error", TRUE)
     ELSE IF skipped # 0 THEN Marked(tc, testcase.children[skipped], "skipped", FALSE)
     ELSE tc

parseTestReport(xmlDoc) ==
  IF "suite" \notin DOMAIN xmlDoc THEN Null
  ELSE
    LET testsuite == xmlDoc.suite
        report == [tests |-> ParseInt(AttrOr(testsuite, "tests", <<"0">>)),
                   failures |-> ParseInt(AttrOr(testsuite, "failures", <<"0">>)),
                   errors |-> ParseInt(AttrOr(testsuite, "errors", <<"0">>)),
                   skipped |-> ParseInt(AttrOr(testsuite, "skipped", <<"0">>)),
                   time |-> ParseFloat(AttrOr(testsuite, "time", <<"0">>)),
                   timestamp |-> GetAttribute(testsuite, "timestamp"),
                   testcases |-> <<>>]
        withVersion == ReadProperties(report, ElementsOf(xmlDoc, "properties"), 1)
        withPassed ==
          WithField(withVersion, "passed",
                    Sub(Sub(Sub(withVersion.tests, withVersion.failures),
                            withVersion.errors), withVersion.skipped))
        testcases == ElementsOf(xmlDoc, "testcases")
    IN WithField(withPassed, "testcases",
                 [i \in 1..Len(testcases) |-> ParseTestcase(testcases[i])])

----------------------------------------------------------------------------
(* What the server may answer.                                             *)

\* Inventory entries (devices.json).  A device object is a record of the
\* fields it carries: name and status are optional, and an entry without
\* the field device is not a well-formed device.
DeviceAb == [device |-> <<"A", "b">>, status |-> "online"]
DeviceC == [device |-> <<"c">>, name |-> <<"a", "B">>, status |-> "offline"]
DeviceNoId == [status |-> "online"]

WellFormedDevices == {DeviceAb, DeviceC}

\* All sequences over S of length at most n.
SeqsUpTo(S, n) == UNION {[1..m -> S] : m \in 0..n}

\* A body of devices.json that parses to something that is not an array
\* (an object, null, a string): a marker no list of references equals.
NotList == << <<0, 0>> >>

\* The bodies of devices.json that parse to an array: the lists of
\* well-formed devices, and a list holding an entry without device.
WellFormedInventories == SeqsUpTo(WellFormedDevices, MaxDevices)
InventoryBodies == WellFormedInventories \cup {<<DeviceNoId>>}

\* Bodies of report.xml.
DocNoSuite == [root |-> "html"]
DocPass == [suite |-> [tests |-> <<"2">>, skipped |-> <<"1">>]]
DocFail == [suite |-> [tests |-> <<"3">>, failures |-> <<"1">>,
                       errors |-> <<"0">>, skipped |-> <<"0">>]]
DocErr == [suite |-> [tests |-> <<"1", "2">>, errors |-> <<"2">>, failures |-> <<>>]]
DocNaN == [suite |-> [tests |-> <<"x">>, failures |-> <<"1">>]]

ReportDocs == {DocNoSuite, DocFail}
AllDocs == {DocNoSuite, DocPass, DocFail, DocErr, DocNaN}

\* The attributes an element carries, from opt: opt[name] is <<>> when the
\* attribute is absent, and <<s>> when it is the text s.
Attrs(opt) == [n \in {m \in DOMAIN opt : opt[m] # <<>>} |-> opt[n][1]]

\* Texts of the attributes of testsuite, absent (<<>>) or present.
TestsTexts ==
  {<<>>, << <<>> >>, << <<"0">> >>, << <<"5">> >>, << <<"x">> >>,
   << <<"-", "2">> >>, << <<"2", "x">> >>, << <<" ", "4">> >>}
FailuresTexts == {<<>>, << <<"1">> >>, << <<"x">> >>, << <<"-", "1">> >>}
ErrorsTexts == {<<>>, << <<"1">> >>, << <<"7">> >>}
SkippedTexts == {<<>>, << <<"2">> >>, << <<"1", ".", "5">> >>}
TimeTexts == {<<>>, << <<"1", ".", "5", "0">> >>, << <<"x">> >>, << <<".", "5">> >>}

\* Documents of one testsuite element and nothing else.
SuiteDocs ==
  {[suite |-> Attrs([tests |-> t, failures |-> f, errors |-> e,
                     skipped |-> s, time |-> d])] :
     t \in TestsTexts, f \in FailuresTexts, e \in ErrorsTexts,
     s \in SkippedTexts, d \in TimeTexts}

PropertyElements ==
  {[name |-> FirmwareVersion, value |-> <<"1">>],
   [name |-> FirmwareVersion, value |-> <<"2">>],
   [name |-> FirmwareVersion],
   [name |-> <<"o", "s">>, value |-> <<"1">>]}

\* Documents of a testsuite and property elements.
PropertyDocs ==
  {[suite |-> DocFail.suite, properties |-> ps] :
     ps \in SeqsUpTo(PropertyElements, MaxProperties)}

FailureF == [tag |-> "failure", attrs |-> [message |-> <<"f">>], text |-> <<" ", "b", " ">>]
FailureG == [tag |-> "failure", attrs |-> [message |-> <<"g">>], text |-> <<>>]
FailureBare == [tag |-> "failure", attrs |-> [type |-> <<"t">>], text |-> <<" ">>]
ErrorE == [tag |-> "error", attrs |-> [message |-> <<"e">>], text |-> <<"t">>]
SkippedS == [tag |-> "skipped", attrs |-> [message |-> <<"s">>], text |-> <<"n">>]

TestcaseElements ==
  {[attrs |-> [classname |-> <<"k">>, name |-> <<"p">>, time |-> <<"0", ".", "5">>],
    children |-> <<>>],
   [attrs |-> [name |-> <<"a">>], children |-> <<FailureF>>],
   [attrs |-> [name |-> <<"b">>], children |-> <<ErrorE>>],
   [attrs |-> [name |-> <<"c">>], children |-> <<SkippedS>>],
   [attrs |-> [name |-> <<"d">>], children |-> <<FailureF, ErrorE>>],
   [attrs |-> [name |-> <<"e">>], children |-> <<ErrorE, FailureF>>],
   [attrs |-> [name |-> <<"f">>], children |-> <<SkippedS, ErrorE>>],
   [attrs |-> [name |-> <<"g">>], children |-> <<SkippedS, FailureBare>>],
   [attrs |-> [name |-> <<"h">>], children |-> <<FailureG, FailureF>>],
   [attrs |-> [name |-> <<"i">>], children |-> <<SkippedS, ErrorE, FailureG>>]}

\* Documents of a testsuite and testcase elements.
TestcaseDocs ==
  {[suite |-> DocFail.suite, testcases |-> tcs] :
     tcs \in SeqsUpTo(TestcaseElements, MaxTestcases)}

\* The bodies of report.xml parseTestReport is checked on.
ParseDocs == {DocNoSuite} \cup SuiteDocs \cup PropertyDocs \cup TestcaseDocs

SearchTerms == {<<>>, <<"a", "B">>, <<"C">>}
TypedTerms == {<<>>, <<"C">>}
FilterTypes == {"all", "failed"}
DeviceIds == {<<"A", "b">>, <<"c">>}

----------------------------------------------------------------------------
VARIABLES
  devicesData,      \* this.devicesData: a list of references, or NotList
  filteredDevices,  \* this.filteredDevices: a list of references
  searchTerm,       \* this.searchTerm
  filterType,       \* this.filterType
  heap,             \* the device objects: reference -> record of its fields
  stats,            \* the statistics shown in stats-container
  pc,               \* pc[k]: where call k of loadDevices stands
  task,             \* task[k][i]: the report task of call k for its device i
  result,           \* result[k]: the list call k resolved with
  error,            \* error[k]: the error call k rejected with
  shown,            \* shown[k]: the error messages call k has shown
  filterResult,     \* how the last run of filterDevices ended
  modal             \* what the last showTestDetails displayed

vars == <<devicesData, filteredDevices, searchTerm, filterType, heap, stats,
          pc, task, result, error, shown, filterResult, modal>>

\* The reference of the object call k creates for entry i of its inventory.
Ref(k, i) == <<k, i>>

IsList(dd) == dd # NotList

\* device.report is truthy: set, and not null.
HasReport(d) == "report" \in DOMAIN d /\ d.report # Null

\* The statistics before any load.
NoStats == [none |-> TRUE]

----------------------------------------------------------------------------
(* updateStats and filterDevices, as functions of the collection they read: *)
(* the list dd of references and the objects h.                            *)

ZeroStats(dd, h) ==
  [total |-> Len(dd),
   online |-> Len(SelectSeq(dd, LAMBDA r :
                 "status" \in DOMAIN h[r] /\ h[r].status = "online")),
   totalTests |-> Num(0), passed |-> Num(0), failed |-> Num(0),
   skipped |-> Num(0)]

\* AddDevice with the errors left out of failed.
AddDeviceFailuresOnly(acc, d) ==
  IF HasReport(d)
  THEN [acc EXCEPT !.totalTests = Add(@, d.report.tests),
                   !.passed = Add(@, d.report.passed),
                   !.failed = Add(@, d.report.failures),
                   !.skipped = Add(@, d.report.skipped)]
  ELSE acc

\* One turn of the forEach of updateStats, for the object d.
AddDevice(acc, d) ==
  IF HasReport(d)
  THEN [acc EXCEPT !.totalTests = Add(@, d.report.tests),
                   !.passed = Add(@, d.report.passed),
                   !.failed = Add(@, Add(d.report.failures, d.report.errors)),
                   !.skipped = Add(@, d.report.skipped)]
  ELSE acc

\* The forEach of updateStats from index i on.
RECURSIVE StatsFrom(_, _, _, _)
StatsFrom(dd, h, i, acc) ==
  IF i > Len(dd) THEN acc
  ELSE StatsFrom(dd, h, i + 1, AddDevice(acc, h[dd[i]]))

\* The statistics updateStats shows.
updateStats(dd, h) == StatsFrom(dd, h, 1, ZeroStats(dd, h))

\* updateStats raises a TypeError when devicesData has no method filter.
UpdateStatsThrows(dd) == ~IsList(dd)

MatchesSearch(d, term) ==
  \/ Includes(ToLowerCase(d.device), ToLowerCase(term))
  \/ /\ "name" \in DOMAIN d
     /\ d.name # <<>>
     /\ Includes(ToLowerCase(d.name), ToLowerCase(term))

\* MatchesFilter taking a device without a report for a failed one.
MatchesFilterNoReport(d, type) ==
  \/ type = "all"
  \/ /\ type = "failed"
     /\ (~HasReport(d) \/ GtZero(d.report.failures) \/ GtZero(d.report.errors))

MatchesFilter(d, type) ==
  \/ type = "all"
  \/ /\ type = "failed"
     /\ HasReport(d)
     /\ (GtZero(d.report.failures) \/ GtZero(d.report.errors))

\* Filtered with the two conditions joined by "or".
FilteredEither(dd, h, term, type) ==
  SelectSeq(dd, LAMBDA r : MatchesSearch(h[r], term) \/ MatchesFilter(h[r], type))

\* The sequence s from its last element to its first.
Reversed(s) == [i \in 1..Len(s) |-> s[Len(s) + 1 - i]]

\* Filtered with the matches in reverse order.
FilteredReversed(dd, h, term, type) ==
  Reversed(SelectSeq(dd, LAMBDA r :
             MatchesSearch(h[r], term) /\ MatchesFilter(h[r], type)))

\* The list filterDevices assigns to this.filteredDevices.
Filtered(dd, h, term, type) ==
  SelectSeq(dd, LAMBDA r : MatchesSearch(h[r], term) /\ MatchesFilter(h[r], type))

\* filterDevices raises a TypeError when devicesData has no method filter,
\* or when device.device of an entry is undefined.
FilterThrows(dd, h) ==
  \/ ~IsList(dd)
  \/ \E i \in 1..Len(dd) : "device" \notin DOMAIN h[dd[i]]

----------------------------------------------------------------------------
(* The state after construction.                                           *)

AllRefs == Calls \X (1..MaxDevices)

\* A reference no object has been created for.
Unallocated == [free |-> TRUE]

Init ==
  /\ devicesData = <<>>
  /\ filteredDevices = <<>>
  /\ searchTerm = <<>>
  /\ filterType = "all"
  /\ heap = [r \in AllRefs |-> Unallocated]
  /\ stats = NoStats
  /\ pc = [k \in Calls |-> "idle"]
  /\ task = [k \in Calls |-> <<>>]
  /\ result = [k \in Calls |-> <<>>]
  /\ error = [k \in Calls |-> "none"]
  /\ shown = [k \in Calls |-> 0]
  /\ filterResult = "none"
  /\ modal = "none"

----------------------------------------------------------------------------
(* loadDevices.                                                            *)

Settled(t) == t.st \in {"failed", "parsed"}

\* AllSettled as Promise.race would have it: some report task has settled.
SomeSettled(ts) == \E i \in 1..Len(ts) : Settled(ts[i])

\* await Promise.all(devicePromises): every report task has settled (no
\* task rejects: each catches its own errors).
AllSettled(ts) == \A i \in 1..Len(ts) : Settled(ts[i])

\* Reject with the error swallowed: the catch shows the message and
\* returns instead of rethrowing.
RejectSwallowed(k, e) ==
  /\ pc' = [pc EXCEPT ![k] = "resolved"]
  /\ error' = [error EXCEPT ![k] = e]
  /\ shown' = [shown EXCEPT ![k] = @ + 1]
  /\ UNCHANGED result

\* The catch of loadDevices: show one error message and rethrow.
Reject(k, e) ==
  /\ pc' = [pc EXCEPT ![k] = "rejected"]
  /\ error' = [error EXCEPT ![k] = e]
  /\ shown' = [shown EXCEPT ![k] = @ + 1]
  /\ UNCHANGED result

\* What follows await Promise.all in call k, with dd and h the collection
\* at that point: updateStats(), filterDevices() with the current search
\* term and filter type, and return this.devicesData; an exception of
\* either goes to the catch.
Completion(k, dd, h) ==
  /\ UNCHANGED <<searchTerm, filterType>>
  /\ IF UpdateStatsThrows(dd)
     THEN /\ UNCHANGED <<stats, filteredDevices, filterResult>>
          /\ Reject(k, "devicesData.filter is not a function")
     ELSE /\ stats' = updateStats(dd, h)
          /\ IF FilterThrows(dd, h)
             THEN /\ filterResult' = "threw"
                  /\ UNCHANGED filteredDevices
                  /\ Reject(k, "device.device is undefined")
             ELSE /\ filterResult' = "returned"
                  /\ filteredDevices' = Filtered(dd, h, searchTerm, filterType)
                  /\ pc' = [pc EXCEPT ![k] = "resolved"]
                  /\ result' = [result EXCEPT ![k] = dd]
                  /\ UNCHANGED <<error, shown>>

\* A call of loadDevices(): up to the first await, the fetch of
\* devices.json.  Calls are numbered in the order they are made.
loadDevices(k) ==
  /\ pc[k] = "idle"
  /\ k > 1 => pc[k - 1] # "idle"
  /\ pc' = [pc EXCEPT ![k] = "fetching"]
  /\ UNCHANGED <<devicesData, filteredDevices, searchTerm, filterType, heap,
                 stats, task, result, error, shown, filterResult, modal>>

\* refresh() returns loadDevices().
refresh(k) == loadDevices(k)

\* The fetch of devices.json fails in transport.
InventoryFetchFails(k) ==
  /\ pc[k] = "fetching"
  /\ Reject(k, "Failed to fetch")
  /\ UNCHANGED <<devicesData, filteredDevices, searchTerm, filterType, heap,
                 stats, task, filterResult, modal>>

\* The response to devices.json is not ok.
InventoryNotOk(k) ==
  /\ pc[k] = "fetching"
  /\ Reject(k, "Failed to load devices.json")
  /\ UNCHANGED <<devicesData, filteredDevices, searchTerm, filterType, heap,
                 stats, task, filterResult, modal>>

\* The response to devices.json is ok: await response.json().
InventoryOk(k) ==
  /\ pc[k] = "fetching"
  /\ pc' = [pc EXCEPT ![k] = "parsing"]
  /\ UNCHANGED <<devicesData, filteredDevices, searchTerm, filterType, heap,
                 stats, task, result, error, shown, filterResult, modal>>

\* response.json() rejects: the body is not JSON.
InventoryJsonFails(k) ==
  /\ pc[k] = "parsing"
  /\ Reject(k, "SyntaxError")
  /\ UNCHANGED <<devicesData, filteredDevices, searchTerm, filterType, heap,
                 stats, task, filterResult, modal>>

\* response.json() yields a value that is no array: it is assigned to
\* this.devicesData, and devicesData.map raises a TypeError.
InventoryNotList(k) ==
  /\ pc[k] = "parsing"
  /\ devicesData' = NotList
  /\ Reject(k, "devicesData.map is not a function")
  /\ UNCHANGED <<filteredDevices, searchTerm, filterType, heap, stats, task,
                 filterResult, modal>>

\* InventoryList appending the new entries to the collection it replaces.
InventoryListMerging(k, body) ==
  /\ pc[k] = "parsing"
  /\ LET new == [i \in 1..Len(body) |-> Ref(k, i)]
         dd == IF IsList(devicesData) THEN devicesData \o new ELSE new
         h == [r \in AllRefs |->
                 IF r[1] = k /\ r[2] <= Len(body) THEN body[r[2]] ELSE heap[r]]
         ts == [i \in 1..Len(body) |-> [st |-> "fetching"]]
     IN /\ devicesData' = dd
        /\ heap' = h
        /\ task' = [task EXCEPT ![k] = ts]
        /\ IF AllSettled(ts)
           THEN Completion(k, dd, h)
           ELSE /\ pc' = [pc EXCEPT ![k] = "loading"]
                /\ UNCHANGED <<filteredDevices, searchTerm, filterType, stats,
                               result, error, shown, filterResult>>
  /\ UNCHANGED modal

\* response.json() yields the list body: it is assigned to
\* this.devicesData, and map starts the report task of every entry, each
\* running up to its fetch; then await Promise.all, which an empty list
\* passes at once.
InventoryList(k, body) ==
  /\ pc[k] = "parsing"
  /\ LET dd == [i \in 1..Len(body) |-> Ref(k, i)]
         h == [r \in AllRefs |->
                 IF r[1] = k /\ r[2] <= Len(body) THEN body[r[2]] ELSE heap[r]]
         ts == [i \in 1..Len(body) |-> [st |-> "fetching"]]
     IN /\ devicesData' = dd
        /\ heap' = h
        /\ task' = [task EXCEPT ![k] = ts]
        /\ IF AllSettled(ts)
           THEN Completion(k, dd, h)
           ELSE /\ pc' = [pc EXCEPT ![k] = "loading"]
                /\ UNCHANGED <<filteredDevices, searchTerm, filterType, stats,
                               result, error, shown, filterResult>>
  /\ UNCHANGED modal

\* The report task i of call k settles with device.report = report; when
\* it is the last one, Promise.all resolves and call k completes.
Settle(k, i, report, t) ==
  LET h == [heap EXCEPT ![Ref(k, i)] = [f \in DOMAIN @ \cup {"report"} |->
                                          IF f = "report" THEN report ELSE @[f]]]
      ts == [task[k] EXCEPT ![i] = t]
  IN /\ heap' = h
     /\ task' = [task EXCEPT ![k] = ts]
     /\ IF pc[k] = "loading" /\ AllSettled(ts)
        THEN Completion(k, devicesData, h)
        ELSE UNCHANGED <<filteredDevices, searchTerm, filterType, stats, pc,
                         result, error, shown, filterResult>>
     /\ UNCHANGED <<devicesData, modal>>

Fetching(k, i) == i \in 1..Len(task[k]) /\ task[k][i].st = "fetching"
Reading(k, i) == i \in 1..Len(task[k]) /\ task[k][i].st = "reading"

\* ReportNotOk raising the error instead of recording it: the load fails.
ReportNotOkFatal(k, i) ==
  /\ Fetching(k, i)
  /\ pc[k] = "loading"
  /\ Reject(k, "Report not available")
  /\ task' = [task EXCEPT ![k][i] = [st |-> "failed"]]
  /\ UNCHANGED <<devicesData, filteredDevices, searchTerm, filterType, heap,
                 stats, filterResult, modal>>

\* The response to report.xml is not ok: device.report = null.
ReportNotOk(k, i) ==
  /\ Fetching(k, i)
  /\ Settle(k, i, Null, [st |-> "failed"])

\* The fetch of report.xml fails in transport: the catch of the task.
ReportFetchFails(k, i) ==
  /\ Fetching(k, i)
  /\ Settle(k, i, Null, [st |-> "failed"])

\* The response to report.xml is ok: await reportResponse.text().
ReportOk(k, i) ==
  /\ Fetching(k, i)
  /\ task' = [task EXCEPT ![k][i] = [st |-> "reading"]]
  /\ UNCHANGED <<devicesData, filteredDevices, searchTerm, filterType, heap,
                 stats, pc, result, error, shown, filterResult, modal>>

\* reportResponse.text() rejects: the catch of the task.
ReportTextFails(k, i) ==
  /\ Reading(k, i)
  /\ Settle(k, i, Null, [st |-> "failed"])

\* reportResponse.text() yields doc: device.report = parseTestReport(doc).
ReportText(k, i, doc) ==
  /\ Reading(k, i)
  /\ Settle(k, i, parseTestReport(doc), [st |-> "parsed", doc |-> doc])

----------------------------------------------------------------------------
(* The readers of the collection.                                          *)

\* filterDevices narrowing the list it showed last instead of devicesData.
filterDevicesNarrowing(term, type) ==
  /\ searchTerm' = term
  /\ filterType' = type
  /\ IF FilterThrows(devicesData, heap)
     THEN /\ filterResult' = "threw"
          /\ UNCHANGED filteredDevices
     ELSE /\ filterResult' = "returned"
          /\ filteredDevices' = Filtered(filteredDevices, heap, term, type)
  /\ UNCHANGED <<devicesData, heap, stats, pc, task, result, error, shown, modal>>

\* filterDevices(term, type), called by the page on a change of the search
\* box or of the filter.
filterDevices(term, type) ==
  /\ searchTerm' = term
  /\ filterType' = type
  /\ IF FilterThrows(devicesData, heap)
     THEN /\ filterResult' = "threw"
          /\ UNCHANGED filteredDevices
     ELSE /\ filterResult' = "returned"
          /\ filteredDevices' = Filtered(devicesData, heap, term, type)
  /\ UNCHANGED <<devicesData, heap, stats, pc, task, result, error, shown, modal>>

\* The first entry of devicesData whose device is deviceId (find), or 0.
FindDevice(dd, h, deviceId) ==
  LET hits == {i \in 1..Len(dd) :
                 "device" \in DOMAIN h[dd[i]] /\ h[dd[i]].device = deviceId}
  IN IF hits = {} THEN 0 ELSE CHOOSE i \in hits : \A j \in hits : i <= j

\* showTestDetails(deviceId): an error message when there is no such
\* device or it has no report, the modal with its report otherwise.
showTestDetails(deviceId) ==
  /\ IsList(devicesData)
  /\ LET i == FindDevice(devicesData, heap, deviceId)
     IN modal' = IF i = 0 \/ ~HasReport(heap[devicesData[i]])
                 THEN "noData" ELSE "details"
  /\ UNCHANGED <<devicesData, filteredDevices, searchTerm, filterType, heap,
                 stats, pc, task, result, error, shown, filterResult>>

----------------------------------------------------------------------------
Next ==
  \/ \E k \in Calls : loadDevices(k)
  \/ \E k \in Calls : refresh(k)
  \/ \E k \in Calls : InventoryFetchFails(k)
  \/ \E k \in Calls : InventoryNotOk(k)
  \/ \E k \in Calls : InventoryOk(k)
  \/ \E k \in Calls : InventoryJsonFails(k)
  \/ \E k \in Calls : InventoryNotList(k)
  \/ \E k \in Calls, body \in InventoryBodies : InventoryList(k, body)
  \/ \E k \in Calls, i \in 1..MaxDevices : ReportNotOk(k, i)
  \/ \E k \in Calls, i \in 1..MaxDevices : ReportFetchFails(k, i)
  \/ \E k \in Calls, i \in 1..MaxDevices : ReportOk(k, i)
  \/ \E k \in Calls, i \in 1..MaxDevices : ReportTextFails(k, i)
  \/ \E k \in Calls, i \in 1..MaxDevices, doc \in ReportDocs : ReportText(k, i, doc)
  \/ \E term \in TypedTerms, type \in FilterTypes : filterDevices(term, type)

Spec == Init /\ [][Next]_vars

----------------------------------------------------------------------------
(* The calls of loadDevices made one after the other: the page calls       *)
(* loadDevices or refresh only when no call is in flight.                  *)

InFlight(k) == pc[k] \in {"fetching", "parsing", "loading"}

loadDevicesAlone(k) == (\A j \in Calls : ~InFlight(j)) /\ loadDevices(k)

refreshAlone(k) == (\A j \in Calls : ~InFlight(j)) /\ refresh(k)

NextSeq ==
  \/ \E k \in Calls : loadDevicesAlone(k)
  \/ \E k \in Calls : refreshAlone(k)
  \/ \E k \in Calls : InventoryFetchFails(k)
  \/ \E k \in Calls : InventoryNotOk(k)
  \/ \E k \in Calls : InventoryOk(k)
  \/ \E k \in Calls : InventoryJsonFails(k)
  \/ \E k \in Calls : InventoryNotList(k)
  \/ \E k \in Calls, body \in InventoryBodies : InventoryList(k, body)
  \/ \E k \in Calls, i \in 1..MaxDevices : ReportNotOk(k, i)
  \/ \E k \in Calls, i \in 1..MaxDevices : ReportFetchFails(k, i)
  \/ \E k \in Calls, i \in 1..MaxDevices : ReportOk(k, i)
  \/ \E k \in Calls, i \in 1..MaxDevices : ReportTextFails(k, i)
  \/ \E k \in Calls, i \in 1..MaxDevices, doc \in ReportDocs : ReportText(k, i, doc)
  \/ \E term \in TypedTerms, type \in FilterTypes : filterDevices(term, type)

SpecSeq == Init /\ [][NextSeq]_vars

----------------------------------------------------------------------------
(* updateStats and filterDevices over every collection one load can leave: *)
(* the collection is fixed, and the page calls its readers in any order.   *)

ViewTasks ==
  {[st |-> "fetching"], [st |-> "reading"], [st |-> "failed"]}
    \cup {[st |-> "parsed", doc |-> doc] : doc \in AllDocs}

\* The object of inventory entry d whose report task stands at t.
ObjectAt(d, t) ==
  IF ~Settled(t) THEN d
  ELSE [f \in DOMAIN d \cup {"report"} |->
          IF f # "report" THEN d[f]
          ELSE IF t.st = "parsed" THEN parseTestReport(t.doc) ELSE Null]

\* The state in which the first call of loadDevices has read the list body
\* and its report tasks stand at ts, with no call of the page in between.
LoadedState(body, ts) ==
  LET dd == [i \in 1..Len(body) |-> Ref(1, i)]
      h == [r \in AllRefs |->
              IF r[1] = 1 /\ r[2] <= Len(body)
              THEN ObjectAt(body[r[2]], ts[r[2]]) ELSE Unallocated]
      done == AllSettled(ts)
      threw == FilterThrows(dd, h)
  IN /\ devicesData = dd
     /\ heap = h
     /\ task = [k \in Calls |-> IF k = 1 THEN ts ELSE <<>>]
     /\ searchTerm = <<>>
     /\ filterType = "all"
     /\ stats = IF done THEN updateStats(dd, h) ELSE NoStats
     /\ filteredDevices = IF done /\ ~threw THEN Filtered(dd, h, <<>>, "all") ELSE <<>>
     /\ filterResult = IF ~done THEN "none" ELSE IF threw THEN "threw" ELSE "returned"
     /\ pc = [k \in Calls |->
                IF k # 1 THEN "idle"
                ELSE IF ~done THEN "loading"
                ELSE IF threw THEN "rejected" ELSE "resolved"]
     /\ result = [k \in Calls |-> IF k = 1 /\ done /\ ~threw THEN dd ELSE <<>>]
     /\ error = [k \in Calls |->
                   IF k = 1 /\ done /\ threw
                   THEN "device.device is undefined" ELSE "none"]
     /\ shown = [k \in Calls |-> IF k = 1 /\ done /\ threw THEN 1 ELSE 0]
     /\ modal = "none"

\* The state in which the first call of loadDevices has read a body that
\* is no list.
NotListState ==
  /\ devicesData = NotList
  /\ heap = [r \in AllRefs |-> Unallocated]
  /\ task = [k \in Calls |-> <<>>]
  /\ searchTerm = <<>>
  /\ filterType = "all"
  /\ stats = NoStats
  /\ filteredDevices = <<>>
  /\ filterResult = "none"
  /\ pc = [k \in Calls |-> IF k = 1 THEN "rejected" ELSE "idle"]
  /\ result = [k \in Calls |-> <<>>]
  /\ error = [k \in Calls |->
                IF k = 1 THEN "devicesData.map is not a function" ELSE "none"]
  /\ shown = [k \in Calls |-> IF k = 1 THEN 1 ELSE 0]
  /\ modal = "none"

InitView ==
  \/ \E body \in InventoryBodies :
       \E ts \in [1..Len(body) -> ViewTasks] : LoadedState(body, ts)
  \/ NotListState

\* A call of updateStats().
UpdateStatsCall ==
  /\ ~UpdateStatsThrows(devicesData)
  /\ stats' = updateStats(devicesData, heap)
  /\ UNCHANGED <<devicesData, filteredDevices, searchTerm, filterType, heap,
                 pc, task, result, error, shown, filterResult, modal>>

NextView ==
  \/ \E term \in SearchTerms, type \in FilterTypes : filterDevices(term, type)
  \/ \E deviceId \in DeviceIds : showTestDetails(deviceId)
  \/ UpdateStatsCall

SpecView == InitView /\ [][NextView]_vars

----------------------------------------------------------------------------
(* parseTestReport over the documents of ParseDocs: a load of one device   *)
(* awaits the body of its report.                                          *)

InitParse == LoadedState(<<DeviceAb>>, <<[st |-> "reading"]>>)

NextParse == \E doc \in ParseDocs : ReportText(1, 1, doc)

SpecParse == InitParse /\ [][NextParse]_vars

----------------------------------------------------------------------------
(* Properties of updateStats and filterDevices, checked under SpecView.    *)

Range(s) == {s[i] : i \in 1..Len(s)}

\* The sum of the field of the reports of the objects dd[i], i in I.
RECURSIVE SumField(_, _, _, _)
SumField(I, dd, h, field) ==
  IF I = {} THEN Num(0)
  ELSE LET i == CHOOSE j \in I : TRUE
       IN Add(h[dd[i]].report[field], SumField(I \ {i}, dd, h, field))

\* The statistics by their definition: counts of devices, and sums over
\* the devices that have a report.
StatsReference(dd, h) ==
  LET reported == {i \in 1..Len(dd) :
                     "report" \in DOMAIN h[dd[i]] /\ h[dd[i]].report # Null}
  IN [total |-> Len(dd),
      online |-> Cardinality({i \in 1..Len(dd) :
                   "status" \in DOMAIN h[dd[i]] /\ h[dd[i]].status = "online"}),
      totalTests |-> SumField(reported, dd, h, "tests"),
      passed |-> SumField(reported, dd, h, "passed"),
      failed |-> Add(SumField(reported, dd, h, "failures"),
                     SumField(reported, dd, h, "errors")),
      skipped |-> SumField(reported, dd, h, "skipped")]

AllZeroStats ==
  [total |-> 0, online |-> 0, totalTests |-> Num(0), passed |-> Num(0),
   failed |-> Num(0), skipped |-> Num(0)]

\* C7: the statistics updateStats computes are, for every collection, the
\* number of devices, the number of online devices, and the sums of tests,
\* passed, failures + errors and skipped over the devices with a non-null
\* report; the empty collection gives all zeros.
C7_StatsEqualReference ==
  stats # NoStats =>
    /\ stats = StatsReference(devicesData, heap)
    /\ devicesData = <<>> => stats = AllZeroStats

\* A collection of an online device whose report is null and a device
\* whose report counts errors, with its statistics computed.
C7_Witness ==
  /\ stats # NoStats
  /\ Len(devicesData) = 2
  /\ \E i, j \in 1..2 :
       /\ "report" \in DOMAIN heap[devicesData[i]]
       /\ heap[devicesData[i]].report = Null
       /\ heap[devicesData[i]].status = "online"
       /\ HasReport(heap[devicesData[j]])
       /\ GtZero(heap[devicesData[j]].report.errors)
  /\ stats.total = 2
  /\ stats.failed = Num(2)

\* C8: after filterDevices(searchTerm, "failed") every device of
\* filteredDevices has a non-null report with failures > 0 or errors > 0.
C8_FailedFilterOnlyFailed ==
  (filterResult = "returned" /\ filterType = "failed") =>
    \A i \in 1..Len(filteredDevices) :
      LET d == heap[filteredDevices[i]]
      IN /\ "report" \in DOMAIN d
         /\ d.report # Null
         /\ \/ (~IsNaN(d.report.failures) /\ d.report.failures[1] > 0)
            \/ (~IsNaN(d.report.errors) /\ d.report.errors[1] > 0)

\* The "failed" filter has kept a device and has dropped one that matches
\* the search term and has no report, null or not yet set.
C8_Witness ==
  /\ filterResult = "returned"
  /\ filterType = "failed"
  /\ filteredDevices # <<>>
  /\ \E i \in 1..Len(devicesData) :
       /\ devicesData[i] \notin Range(filteredDevices)
       /\ MatchesSearch(heap[devicesData[i]], searchTerm)
       /\ ~HasReport(heap[devicesData[i]])

\* C9 as stated: with filterType "all", filteredDevices contains every
\* device of devicesData, whatever the search term.
C9_AllIgnoresSearch ==
  (filterResult = "returned" /\ filterType = "all") =>
    \A i \in 1..Len(devicesData) : devicesData[i] \in Range(filteredDevices)

\* C9, amended: with filterType "all", filteredDevices contains exactly the
\* devices of devicesData that match the search term.
C9_AllKeepsSearchMatches ==
  (filterResult = "returned" /\ filterType = "all") =>
    /\ \A i \in 1..Len(devicesData) :
         devicesData[i] \in Range(filteredDevices)
           <=> MatchesSearch(heap[devicesData[i]], searchTerm)
    /\ Range(filteredDevices) \subseteq Range(devicesData)

\* Under "all", a search term has kept one device and dropped another.
C9_Witness ==
  /\ filterResult = "returned"
  /\ filterType = "all"
  /\ searchTerm # <<>>
  /\ filteredDevices # <<>>
  /\ Len(filteredDevices) < Len(devicesData)

\* The position of reference r in the list dd, 0 if it is not in it.
Position(dd, r) ==
  IF r \in Range(dd) THEN CHOOSE i \in 1..Len(dd) : dd[i] = r ELSE 0

\* C10: filterDevices("", "all") yields devicesData itself, and for every
\* search term and filter type filteredDevices lists devices of devicesData
\* in their order in devicesData, none of them twice.
C10_FilterKeepsOrder ==
  filterResult = "returned" =>
    /\ (searchTerm = <<>> /\ filterType = "all") => filteredDevices = devicesData
    /\ \A i \in 1..Len(filteredDevices) :
         Position(devicesData, filteredDevices[i]) > 0
    /\ \A i, j \in 1..Len(filteredDevices) :
         i < j => Position(devicesData, filteredDevices[i])
                    < Position(devicesData, filteredDevices[j])

\* A search term that is not empty has kept two devices.
C10_Witness ==
  /\ filterResult = "returned"
  /\ searchTerm # <<>>
  /\ Len(filteredDevices) = 2
  /\ heap[filteredDevices[1]] # heap[filteredDevices[2]]

----------------------------------------------------------------------------
(* Properties of loadDevices.                                              *)

\* The list call k assigns to devicesData when it has read a list: one new
\* object for each report task it started.
DevicesOf(k) == [i \in 1..Len(task[k]) |-> Ref(k, i)]

\* Call k has read a list from devices.json: it is past the inventory, and
\* has not failed on it.
ListReceived(k) ==
  \/ pc[k] \in {"loading", "resolved"}
  \/ /\ pc[k] = "rejected"
     /\ error[k] \notin {"Failed to fetch", "Failed to load devices.json",
                         "SyntaxError", "devicesData.map is not a function"}

TaskDone(t) == t.st = "failed" \/ t.st = "parsed"

\* C1: a read of the collection that interleaves with a running load
\* (filterDevices, a lookup by device id) sees a complete collection: no
\* device of devicesData, and no device filterDevices has selected, is
\* without its report, parsed or null.
C1_ReadsSeeSettledReports ==
  /\ IsList(devicesData) =>
       \A i \in 1..Len(devicesData) : "report" \in DOMAIN heap[devicesData[i]]
  /\ \A i \in 1..Len(filteredDevices) : "report" \in DOMAIN heap[filteredDevices[i]]

\* C2: call k starts the report fetch of every device at once, and it
\* recomputes the statistics and the visible subset and resolves only when
\* every report task of call k has settled.
C2_CompletionAfterAllSettled ==
  /\ [](\A k \in Calls :
          /\ pc[k] = "loading" =>
               \A r \in AllRefs :
                 (r[1] = k /\ heap[r] # Unallocated) => r[2] \in 1..Len(task[k])
          /\ pc[k] = "resolved" =>
               \A i \in 1..Len(task[k]) : TaskDone(task[k][i]))
  /\ [][\A k \in Calls :
          ( /\ pc[k] = "loading"
            /\ task'[k] # task[k]
            /\ \/ stats' # stats
               \/ filteredDevices' # filteredDevices
               \/ filterResult' # filterResult
               \/ pc'[k] # "loading" )
          => \A i \in 1..Len(task'[k]) : TaskDone(task'[k][i])]_vars

\* Call k has resolved with two devices, its statistics published.
C2_Witness ==
  \E k \in Calls :
    /\ pc[k] = "resolved"
    /\ Len(task[k]) = 2
    /\ devicesData = DevicesOf(k)
    /\ stats # NoStats
    /\ stats.total = 2
    /\ Len(filteredDevices) = 2

\* The entries of the list call k has read are well-formed devices.
WellFormedList(k) ==
  /\ ListReceived(k)
  /\ \A i \in 1..Len(task[k]) : "device" \in DOMAIN heap[Ref(k, i)]

\* Call k resolves with its full device list, whichever reports fail.
ResolvesWithFullList(k) ==
  /\ pc[k] # "rejected"
  /\ (\A i \in 1..Len(task[k]) : TaskDone(task[k][i])) =>
       /\ pc[k] = "resolved"
       /\ result[k] = DevicesOf(k)
       /\ devicesData = DevicesOf(k) \/ (\E j \in Calls : j > k /\ pc[j] # "idle")

InventoryErrors == {"Failed to fetch", "Failed to load devices.json"}

\* C4: when the fetch of devices.json fails in transport or its response is
\* not ok, the call rejects with that error, shows one error message,
\* starts no report fetch, and no step of the call, from its start to the
\* failure, changes devicesData, filteredDevices or a device.
C4_InventoryFailureRejects ==
  /\ [](\A k \in Calls :
          error[k] \in InventoryErrors =>
            pc[k] = "rejected" /\ shown[k] = 1 /\ task[k] = <<>>)
  /\ [][\A k \in Calls :
          /\ (pc[k] \in {"idle", "fetching"} /\ pc'[k] # pc[k]) =>
               /\ devicesData' = devicesData
               /\ filteredDevices' = filteredDevices
               /\ heap' = heap
               /\ task' = task
          /\ (pc[k] = "fetching" /\ pc'[k] \notin {"fetching", "parsing"}) =>
               /\ pc'[k] = "rejected"
               /\ error'[k] \in InventoryErrors
               /\ shown'[k] = shown[k] + 1]_vars

\* A refresh has failed at the inventory after a load published two devices.
C4_Witness ==
  /\ pc[1] = "resolved"
  /\ pc[2] = "rejected"
  /\ error[2] = "Failed to load devices.json"
  /\ shown[2] = 1
  /\ Len(devicesData) = 2
  /\ Len(filteredDevices) = 2

\* The call made last.
LastCall == CHOOSE k \in Calls : pc[k] # "idle" /\ \A j \in Calls : j > k => pc[j] = "idle"

\* C5: once every call made has settled (here: resolved), devicesData, the
\* statistics and filteredDevices are those of the call made last, also
\* when an earlier call was still in flight when it was made.
C5_LastCallWins ==
  ( /\ pc[1] # "idle"
    /\ \A k \in Calls : pc[k] \in {"idle", "resolved"} )
  => /\ devicesData = DevicesOf(LastCall)
     /\ stats = updateStats(DevicesOf(LastCall), heap)
     /\ Range(filteredDevices) \subseteq Range(DevicesOf(LastCall))

\* C6: after calls of loadDevices made one after the other that all
\* resolved, devicesData is the list of the last inventory, in its order,
\* each device with the report of the last load, and filteredDevices holds
\* devices of that list only.
C6_ReloadReplaces ==
  ( /\ pc[1] # "idle"
    /\ \A k \in Calls : pc[k] \in {"idle", "resolved"} )
  => LET k == LastCall
     IN /\ Len(devicesData) = Cardinality({r \in AllRefs : r[1] = k /\ heap[r] # Unallocated})
        /\ \A i \in 1..Len(devicesData) :
             /\ devicesData[i] = Ref(k, i)
             /\ task[k][i].st = "failed" => heap[devicesData[i]].report = Null
             /\ task[k][i].st = "parsed" =>
                  heap[devicesData[i]].report = parseTestReport(task[k][i].doc)
        /\ \A i \in 1..Len(filteredDevices) : filteredDevices[i][1] = k
        /\ \A i \in 1..Len(result[k]) : result[k][i][1] = k

\* A load of two devices, then a refresh whose inventory has one device.
C6_Witness ==
  /\ pc[1] = "resolved"
  /\ pc[2] = "resolved"
  /\ Len(result[1]) = 2
  /\ Len(devicesData) = 1
  /\ filteredDevices = devicesData

----------------------------------------------------------------------------
(* Properties of filterDevices as an operation, checked under SpecView.    *)

\* A step of filterDevices: nothing else writes these.
FilterStep ==
  \/ filteredDevices' # filteredDevices
  \/ filterResult' # filterResult
  \/ searchTerm' # searchTerm
  \/ filterType' # filterType

\* C11 as stated: filterDevices leaves devicesData and every report
\* unchanged and changes no state other than the visible subset, and the
\* visible subset it yields depends on the collection and on its arguments
\* only, not on the calls that preceded it.
C11_FilterChangesOnlyVisibleSubset ==
  [][ /\ FilterStep =>
           UNCHANGED <<devicesData, heap, searchTerm, filterType, stats, modal,
                       pc, task, result, error, shown>>
      /\ filterResult' = "returned" =>
           filteredDevices' = Filtered(devicesData, heap, searchTerm', filterType')
    ]_vars

\* C11, amended: filterDevices leaves devicesData and every report
\* unchanged and changes no state other than the visible subset and the
\* search term and filter type it records, and the visible subset it yields
\* depends on the collection and on its arguments only, not on the calls
\* that preceded it.
C11_FilterChangesSubsetAndArguments ==
  [][ /\ FilterStep =>
           UNCHANGED <<devicesData, heap, stats, modal, pc, task, result,
                       error, shown>>
      /\ filterResult' = "returned" =>
           filteredDevices' = Filtered(devicesData', heap', searchTerm', filterType')
    ]_vars

\* A call of filterDevices has narrowed a collection of two devices to one,
\* under a search term and the "failed" filter.
C11_Witness ==
  /\ filterResult = "returned"
  /\ searchTerm # <<>>
  /\ filterType = "failed"
  /\ Len(devicesData) = 2
  /\ Len(filteredDevices) = 1

----------------------------------------------------------------------------
(* Properties of parseTestReport, checked under SpecParse.                 *)

\* The report tasks that have parsed a document with a testsuite element.
ParsedSuites ==
  {r \in AllRefs : /\ r[2] \in 1..Len(task[r[1]])
                   /\ task[r[1]][r[2]].st = "parsed"
                   /\ "suite" \in DOMAIN task[r[1]][r[2]].doc}

\* The document parsed for the object r, and the report parsed from it.
DocOf(r) == task[r[1]][r[2]].doc
ReportOf(r) == heap[r].report

CountFields == {"tests", "failures", "errors", "skipped"}

\* The attribute is absent from the element, or its text has no digit.
AbsentOrNoDigit(el, name) ==
  name \in DOMAIN el => \A i \in 1..Len(el[name]) : ~IsDigit(el[name][i])

\* C12: each of tests, failures, errors and skipped of a parsed report is a
\* number, an integer that is not negative, and is 0 when its attribute is
\* absent or not numeric; time is a number, 0 in the same cases.
C12_CountsAreNumbers ==
  \A r \in ParsedSuites :
    /\ ReportOf(r) # Null
    /\ \A f \in CountFields :
         /\ ~IsNaN(ReportOf(r)[f])
         /\ ReportOf(r)[f][1] >= 0
         /\ AbsentOrNoDigit(DocOf(r).suite, f) => ReportOf(r)[f] = Num(0)
    /\ ~IsNaN(ReportOf(r).time)
    /\ AbsentOrNoDigit(DocOf(r).suite, "time") => ReportOf(r).time = Num(<<0, 0>>)

\* x == y of numbers: false when either is NaN.
NumEq(x, y) == ~IsNaN(x) /\ ~IsNaN(y) /\ x[1] = y[1]
\* x <= y and x >= 0 of numbers: false with NaN.
NumLe(x, y) == ~IsNaN(x) /\ ~IsNaN(y) /\ x[1] <= y[1]
GeZero(x) == ~IsNaN(x) /\ x[1] >= 0

\* C13: passed + failures + errors + skipped == tests in every parsed
\* report, attributes missing or not, and passed >= 0 whenever
\* failures + errors + skipped <= tests.
C13_PassedCompletesTests ==
  \A r \in ParsedSuites :
    LET rep == ReportOf(r)
    IN /\ "passed" \in DOMAIN rep
       /\ NumEq(Add(Add(Add(rep.passed, rep.failures), rep.errors), rep.skipped),
                rep.tests)
       /\ NumLe(Add(Add(rep.failures, rep.errors), rep.skipped), rep.tests)
            => GeZero(rep.passed)

\* The property elements of the document named firmware_version.
VersionProperties(xmlDoc) ==
  SelectSeq(ElementsOf(xmlDoc, "properties"),
            LAMBDA p : "name" \in DOMAIN p /\ p.name = FirmwareVersion)

\* C14: firmware_version of a parsed report is the value of the first
\* property element named firmware_version, in document order, and is
\* absent when the document has none.
C14_FirmwareVersionIsFirst ==
  \A r \in ParsedSuites :
    LET ps == VersionProperties(DocOf(r))
    IN IF ps = <<>>
       THEN "firmware_version" \notin DOMAIN ReportOf(r)
       ELSE /\ "firmware_version" \in DOMAIN ReportOf(r)
            /\ ReportOf(r).firmware_version = GetAttribute(ps[1], "value")

\* The tags of the children of a testcase element.
TagsOf(testcase) == {testcase.children[i].tag : i \in 1..Len(testcase.children)}

\* The marker that decides the status: failure before error before skipped.
WinningTag(testcase) ==
  IF "failure" \in TagsOf(testcase) THEN "failure"
  ELSE IF "error" \in TagsOf(testcase) THEN "error"
  ELSE IF "skipped" \in TagsOf(testcase) THEN "skipped"
  ELSE "none"

StatusOfTag ==
  [failure |-> "failed", error |-> "error", skipped |-> "skipped", none |-> "passed"]

\* The first child of the testcase with the tag.
FirstChild(testcase, tag) ==
  testcase.children[CHOOSE i \in 1..Len(testcase.children) :
                      /\ testcase.children[i].tag = tag
                      /\ \A j \in 1..(i - 1) : testcase.children[j].tag # tag]

\* C15: a parsed report lists one testcase for each testcase element, in
\* document order; the status of each is failed with a failure child, else
\* error with an error child, else skipped with a skipped child, else
\* passed; and its message is that of the marker that decided the status,
\* with no message when it passed.
C15_StatusByPrecedence ==
  \A r \in ParsedSuites :
    LET els == ElementsOf(DocOf(r), "testcases")
        tcs == ReportOf(r).testcases
    IN /\ Len(tcs) = Len(els)
       /\ \A j \in 1..Len(els) :
            LET tag == WinningTag(els[j])
            IN /\ tcs[j].name = GetAttribute(els[j].attrs, "name")
               /\ tcs[j].status = StatusOfTag[tag]
               /\ IF tag = "none"
                  THEN "message" \notin DOMAIN tcs[j]
                  ELSE /\ "message" \in DOMAIN tcs[j]
                       /\ tcs[j].message =
                            GetAttribute(FirstChild(els[j], tag).attrs, "message")

\* A report of two testcases has been parsed: the first has an error child
\* before a failure child and is failed with the failure's message, the
\* second has a skipped child before an error child and is error.
C15_Witness ==
  \E r \in ParsedSuites :
    LET els == ElementsOf(DocOf(r), "testcases")
        tcs == ReportOf(r).testcases
    IN /\ Len(els) = 2
       /\ Len(tcs) = 2
       /\ els[1].children = <<ErrorE, FailureF>>
       /\ tcs[1].status = "failed"
       /\ tcs[1].message = << <<"f">> >>
       /\ els[2].children = <<SkippedS, ErrorE>>
       /\ tcs[2].status = "error"
       /\ tcs[2].message = << <<"e">> >>

----------------------------------------------------------------------------
(* Properties of the published collection across loads, checked under      *)
(* SpecSeq.                                                                *)

\* C16: in every state, between the steps of a reload too, filteredDevices
\* lists devices of the current devicesData, in their order in devicesData
\* and none twice, so that it has no more devices than devicesData.
C16_VisibleWithinCollection ==
  IsList(devicesData) =>
    /\ \A i \in 1..Len(filteredDevices) :
         Position(devicesData, filteredDevices[i]) > 0
    /\ \A i, j \in 1..Len(filteredDevices) :
         i < j => Position(devicesData, filteredDevices[i])
                    < Position(devicesData, filteredDevices[j])
    /\ Len(filteredDevices) <= Len(devicesData)

\* C17: when a call of loadDevices has rejected, whatever the cause,
\* devicesData and filteredDevices are as they were before the call:
\* devicesData is not the value that call read from devices.json, and
\* neither list holds an object that call created.
C17_RejectedLoadLeavesCollection ==
  \A k \in Calls :
    pc[k] = "rejected" =>
      /\ IsList(devicesData)
      /\ \A i \in 1..Len(devicesData) : devicesData[i][1] # k
      /\ \A i \in 1..Len(filteredDevices) : filteredDevices[i][1] # k

====
